---- MODULE Spec2Model ----
(***************************************************************************)
(* Model of copy_repo_src.py: the pipeline                                 *)
(*   get_single_public_directory -> check_small_dir -> copy_directory      *)
(*   -> add_input_repo_requirements                                        *)
(* and of the functions it is built from.                                  *)
(*                                                                         *)
(* Text is a sequence of one-character strings, so that readlines, split,  *)
(* strip, sort and writelines are computed character by character.         *)
(***************************************************************************)
EXTENDS Integers, Sequences, FiniteSets, TLC

VARIABLES
    pc,                 \* position of the run
    children,           \* entries of the input repo root: name -> "dir" | "file"
    dir_bytes_size,     \* os.path.getsize of the located directory
    max_gigabytes,      \* ceiling of check_small_dir, a rational <<num, den>>
    input_dir_path,     \* result of get_single_public_directory
    error,              \* the exception that ended the run, if any
    outDirs,            \* directories of the output repo root: set of <<name, tag>>
    inReq,              \* requirements.txt of the input repo
    outReq,             \* requirements.txt of the output repo
    input_reqs,         \* locals of add_input_repo_requirements
    output_reqs,
    wanted_input_reqs,
    started,            \* stages begun so far, in order
    failedStages,       \* stages that failed
    outDirs0,           \* output repo directories when the run began
    outReq0,            \* output requirements.txt when the current call began
    calls,              \* number of calls of add_input_repo_requirements begun
    x,                  \* argument of _get_pkg_name_fn (key specification)
    key,                \* _get_pkg_name_fn(x)
    key2                \* _get_pkg_name_fn(key)

vars == <<pc, children, dir_bytes_size, max_gigabytes, input_dir_path, error,
          outDirs, inReq, outReq, input_reqs, output_reqs, wanted_input_reqs,
          started, failedStages, outDirs0, outReq0, calls, x, key, key2>>

----------------------------------------------------------------------------
(* Bounds *)

MaxChildren  == 3   \* entries in the input repo root
MaxLines     == 2   \* lines of a requirements file
MaxCalls     == 2   \* consecutive calls of add_input_repo_requirements
MaxNameLen   == 2   \* characters of a package name
MaxSuffixLen == 2   \* characters of a version suffix

----------------------------------------------------------------------------
(* Text *)

\* Code point of a character (Python compares str by code point).
Ord(c) ==
    CASE c = "\n" -> 10
      [] c = " "  -> 32
      [] c = "."  -> 46
      [] c = "1"  -> 49
      [] c = "2"  -> 50
      [] c = "<"  -> 60
      [] c = "="  -> 61
      [] c = ">"  -> 62
      [] c = "_"  -> 95
      [] c = "a"  -> 97
      [] c = "b"  -> 98
      [] OTHER    -> 120

\* s < t for str
RECURSIVE StrLess(_, _)
StrLess(s, t) ==
    IF t = <<>> THEN FALSE
    ELSE IF s = <<>> THEN TRUE
    ELSE IF Ord(Head(s)) < Ord(Head(t)) THEN TRUE
    ELSE IF Ord(Head(s)) > Ord(Head(t)) THEN FALSE
    ELSE StrLess(Tail(s), Tail(t))

StrLessEq(s, t) == s = t \/ StrLess(s, t)

\* str.startswith, the match of the glob patterns '.*' and '_*'
StartsWith(s, c) == Len(s) >= 1 /\ s[1] = c

\* str.replace for single characters
replace(s, old, new) == [i \in DOMAIN s |-> IF s[i] = old THEN new ELSE s[i]]

\* s.split(sep)[0]: the text before the first sep, all of s when there is none
RECURSIVE split0(_, _)
split0(s, sep) ==
    IF s = <<>> THEN <<>>
    ELSE IF Head(s) = sep THEN <<>>
    ELSE <<Head(s)>> \o split0(Tail(s), sep)

Whitespace == {" ", "\n"}

RECURSIVE lstrip(_)
lstrip(s) ==
    IF s = <<>> THEN <<>>
    ELSE IF Head(s) \in Whitespace THEN lstrip(Tail(s))
    ELSE s

RECURSIVE rstrip(_)
rstrip(s) ==
    IF s = <<>> THEN <<>>
    ELSE IF s[Len(s)] \in Whitespace THEN rstrip(SubSeq(s, 1, Len(s) - 1))
    ELSE s

\* str.strip()
strip(s) == rstrip(lstrip(s))

\* lambda x: x.replace('>', '=').replace('<', '=').split('=')[0].strip()
get_pkg_name_fn_eq_only(s) == strip(split0(replace(s, ">", "="), "="))
_get_pkg_name_fn(s) ==
    strip(split0(replace(replace(s, ">", "="), "<", "="), "="))

\* f.readlines(): the lines of a text, each keeping its "\n"; a last line
\* without "\n" is returned as it is
RECURSIVE readlinesFrom(_, _)
readlinesFrom(data, cur) ==
    IF data = <<>> THEN (IF cur = <<>> THEN <<>> ELSE <<cur>>)
    ELSE IF Head(data) = "\n"
         THEN <<cur \o <<"\n">> >> \o readlinesFrom(Tail(data), <<>>)
         ELSE readlinesFrom(Tail(data), cur \o <<Head(data)>>)

readlines(data) == readlinesFrom(data, <<>>)

\* f.writelines(lines): the lines one after the other, nothing added
RECURSIVE writelines(_)
writelines(lines) ==
    IF lines = <<>> THEN <<>> ELSE Head(lines) \o writelines(Tail(lines))

\* list.sort() of str
RECURSIVE insertSorted(_, _)
insertSorted(l, sorted) ==
    IF sorted = <<>> THEN <<l>>
    ELSE IF StrLess(l, Head(sorted)) THEN <<l>> \o sorted
    ELSE <<Head(sorted)>> \o insertSorted(l, Tail(sorted))

RECURSIVE sort(_)
sort(lines) ==
    IF lines = <<>> THEN <<>>
    ELSE insertSorted(lines[Len(lines)], sort(SubSeq(lines, 1, Len(lines) - 1)))

Range(s) == {s[i] : i \in DOMAIN s}

\* [f(e) for e in s if p(e)] for the filters the code uses
RECURSIVE SelectLines(_, _)
SelectLines(lines, keys) ==
    IF lines = <<>> THEN <<>>
    ELSE IF _get_pkg_name_fn(Head(lines)) \notin keys
         THEN <<Head(lines)>> \o SelectLines(Tail(lines), keys)
         ELSE SelectLines(Tail(lines), keys)

PackageNames(lines) == {_get_pkg_name_fn(lines[i]) : i \in DOMAIN lines}

\* wanted_input_reqs: the input lines whose package name the output lacks
wanted_all(in_lines, out_lines) == in_lines
wanted(in_lines, out_lines) == SelectLines(in_lines, PackageNames(out_lines))

----------------------------------------------------------------------------
(* get_single_public_directory *)

tests == <<"t", "e", "s", "t", "s">>

glob(ch, c) == {n \in DOMAIN ch : StartsWith(n, c)}
is_dir(ch, n) == ch[n] = "dir"

public_dirs_keep_tests(ch) ==
    LET hidden_dirs  == {p \in glob(ch, ".") : is_dir(ch, p)}
        private_dirs == {p \in glob(ch, "_") : is_dir(ch, p)}
    IN  {p \in DOMAIN ch : is_dir(ch, p) /\ p \notin hidden_dirs \cup private_dirs}
public_dirs(ch) ==
    LET hidden_dirs  == {p \in glob(ch, ".") : is_dir(ch, p)}
        private_dirs == {p \in glob(ch, "_") : is_dir(ch, p)}
        all_public   == {p \in DOMAIN ch :
                           is_dir(ch, p) /\ p \notin hidden_dirs \cup private_dirs}
    IN  {p \in all_public : p # tests}

NoDir == <<>>
NoError == [kind |-> "none", names |-> {}, size |-> <<0, 1>>]

\* the returned directory, or the ValueError with the names it reports
get_single_public_directory(ch) ==
    LET dirs == public_dirs(ch)
    IN  IF Cardinality(dirs) # 1
        THEN [ok |-> FALSE, dir |-> NoDir,
              err |-> [kind |-> "ValueError", names |-> dirs, size |-> <<0, 1>>]]
        ELSE [ok |-> TRUE, dir |-> CHOOSE d \in dirs : TRUE, err |-> NoError]

----------------------------------------------------------------------------
(* check_small_dir *)

BytesPerGigabyte == 1073741824

\* a / b < c / d for non-negative rationals <<a, b>>, <<c, d>>
RatLess(p, q) == p[1] * q[2] < q[1] * p[2]
RatLessEq(p, q) == p[1] * q[2] <= q[1] * p[2]

too_large_inclusive(max_gb, gb) == RatLessEq(max_gb, gb)
too_large(max_gb, gb) == RatLess(max_gb, gb)

check_small_dir(bytes, max_gb) ==
    LET dir_gigabytes_size == <<bytes, BytesPerGigabyte>>
    IN  IF too_large(max_gb, dir_gigabytes_size)
        THEN [ok |-> FALSE,
              err |-> [kind |-> "Exception", names |-> {},
                       size |-> dir_gigabytes_size]]
        ELSE [ok |-> TRUE, err |-> NoError]

----------------------------------------------------------------------------
(* Files and inputs *)

Absent == [exists |-> FALSE, data |-> <<>>]
File(data) == [exists |-> TRUE, data |-> data]

ChildNames ==
    { <<".", "g">>, <<"_", "p">>, tests, <<"t", "e", "s", "t">>,
      <<"s", "r", "c">>, <<"l", "i", "b">> }

ChildrenConfigs ==
    UNION { [S -> {"dir", "file"}] :
              S \in {T \in SUBSET ChildNames : Cardinality(T) <= MaxChildren} }

\* <<max_gigabytes, dir_bytes_size>>: the default ceiling 0.001, and a ceiling
\* of exactly 4096 bytes
DefaultMaxGigabytes == <<1, 1000>>
SizeCases ==
    ({DefaultMaxGigabytes} \X {0, 4096, 1073741, 1073742, 2000000})
    \cup ({<<1, 262144>>} \X {4095, 4096, 4097})

\* line bodies of the requirements files
LineBodies ==
    { <<"a">>, <<"a", "=", "1">>, <<"b", "<", "2">>, <<>> }

RECURSIVE JoinLines(_, _)
JoinLines(bodies, trailing) ==
    IF bodies = <<>> THEN <<>>
    ELSE IF Len(bodies) = 1
         THEN Head(bodies) \o (IF trailing THEN <<"\n">> ELSE <<>>)
         ELSE Head(bodies) \o <<"\n">> \o JoinLines(Tail(bodies), trailing)

\* every text of at most MaxLines lines, the last with or without its "\n"
Texts ==
    { JoinLines(b, t) :
        b \in UNION {[1..n -> LineBodies] : n \in 0..MaxLines},
        t \in BOOLEAN }

ReqFiles == {Absent} \cup {File(d) : d \in Texts}

\* the requirements files of the pipeline runs
PipelineReqFiles ==
    { Absent, File(<<>>), File(<<"a", "\n">>), File(<<"b", "<", "2">>) }

OutDirConfigs == { {}, {<< <<"s", "r", "c">>, "old" >>} }

----------------------------------------------------------------------------
(* The pipeline (__main__) *)

MergePcs == {"m_begin", "m_output", "m_diff", "m_remove", "m_open", "m_write"}

Init ==
    /\ pc = "locate"
    /\ children \in ChildrenConfigs
    /\ \E c \in SizeCases : max_gigabytes = c[1] /\ dir_bytes_size = c[2]
    /\ input_dir_path = NoDir
    /\ error = NoError
    /\ outDirs \in OutDirConfigs
    /\ inReq \in PipelineReqFiles
    /\ outReq \in PipelineReqFiles
    /\ input_reqs = <<>> /\ output_reqs = <<>> /\ wanted_input_reqs = <<>>
    /\ started = <<>>
    /\ failedStages = {}
    /\ outDirs0 = outDirs
    /\ outReq0 = outReq
    /\ calls = 0
    /\ x = <<>> /\ key = <<>> /\ key2 = <<>>

keyVars == <<x, key, key2>>
inputVars == <<children, dir_bytes_size, max_gigabytes, inReq>>
mergeLocals == <<input_reqs, output_reqs, wanted_input_reqs>>

\* input_dir_path = get_single_public_directory(dir_path=input_repo_path)
GetSinglePublicDirectory ==
    /\ pc = "locate"
    /\ started' = Append(started, "locate")
    /\ LET r == get_single_public_directory(children)
       IN  IF r.ok
           THEN /\ input_dir_path' = r.dir
                /\ pc' = "check"
                /\ UNCHANGED <<error, failedStages>>
           ELSE /\ error' = r.err
                /\ failedStages' = failedStages \cup {"locate"}
                /\ pc' = "failed"
                /\ UNCHANGED input_dir_path
    /\ UNCHANGED <<inputVars, outDirs, outReq, mergeLocals, outDirs0, outReq0,
                   calls, keyVars>>

\* check_small_dir(dir_path=input_dir_path), the error swallowed
CheckSmallDir_no_raise ==
    /\ pc = "check"
    /\ started' = Append(started, "check")
    /\ LET r == check_small_dir(dir_bytes_size, max_gigabytes)
       IN  IF r.ok
           THEN /\ pc' = "copy"
                /\ UNCHANGED <<error, failedStages>>
           ELSE /\ error' = r.err
                /\ failedStages' = failedStages \cup {"check"}
                /\ pc' = "copy"
    /\ UNCHANGED <<inputVars, input_dir_path, outDirs, outReq, mergeLocals,
                   outDirs0, outReq0, calls, keyVars>>

\* check_small_dir(dir_path=input_dir_path)
CheckSmallDir ==
    /\ pc = "check"
    /\ started' = Append(started, "check")
    /\ LET r == check_small_dir(dir_bytes_size, max_gigabytes)
       IN  IF r.ok
           THEN /\ pc' = "copy"
                /\ UNCHANGED <<error, failedStages>>
           ELSE /\ error' = r.err
                /\ failedStages' = failedStages \cup {"check"}
                /\ pc' = "failed"
    /\ UNCHANGED <<inputVars, input_dir_path, outDirs, outReq, mergeLocals,
                   outDirs0, outReq0, calls, keyVars>>

\* the output repo root after cp -R has put (part of) the directory into it
WithDir(dirs, name, tag) ==
    {d \in dirs : d[1] # name} \cup {<<name, tag>>}

\* copy_directory: cp -R exits with status 0
CopyDirectoryOk ==
    /\ pc = "copy"
    /\ started' = Append(started, "copy")
    /\ outDirs' = WithDir(outDirs, input_dir_path, "copied")
    /\ pc' = "m_begin"
    /\ UNCHANGED <<inputVars, input_dir_path, error, outReq, mergeLocals,
                   failedStages, outDirs0, outReq0, calls, keyVars>>

\* copy_directory: cp -R exits with a non-zero status, having copied nothing
\* or a part; subprocess.run is called without check=True and returns
CopyDirectoryCpFails ==
    /\ pc = "copy"
    /\ started' = Append(started, "copy")
    /\ \/ outDirs' = outDirs
       \/ outDirs' = WithDir(outDirs, input_dir_path, "partial")
    /\ failedStages' = failedStages \cup {"copy"}
    /\ pc' = "m_begin"
    /\ UNCHANGED <<inputVars, input_dir_path, error, outReq, mergeLocals,
                   outDirs0, outReq0, calls, keyVars>>

\* copy_directory: cp cannot be started; subprocess.run raises
CopyDirectoryCannotRun ==
    /\ pc = "copy"
    /\ started' = Append(started, "copy")
    /\ error' = [kind |-> "FileNotFoundError", names |-> {}, size |-> <<0, 1>>]
    /\ failedStages' = failedStages \cup {"copy"}
    /\ pc' = "failed"
    /\ UNCHANGED <<inputVars, input_dir_path, outDirs, outReq, mergeLocals,
                   outDirs0, outReq0, calls, keyVars>>

----------------------------------------------------------------------------
(* add_input_repo_requirements, one action per file-system operation *)

frame == <<inputVars, input_dir_path, error, outDirs, failedStages, outDirs0,
           keyVars>>

\* is_file() and readlines() of the input file
MergeBegin ==
    /\ pc = "m_begin"
    /\ started' = Append(started, "merge")
    /\ calls' = calls + 1
    /\ IF ~inReq.exists
       THEN /\ pc' = "done"
            /\ UNCHANGED input_reqs
       ELSE /\ input_reqs' = readlines(inReq.data)
            /\ pc' = "m_output"
    /\ UNCHANGED <<frame, outReq, outReq0, output_reqs, wanted_input_reqs>>

\* is_file() of the output file, then readlines() or touch()
MergeReadOutput ==
    /\ pc = "m_output"
    /\ IF outReq.exists
       THEN /\ output_reqs' = readlines(outReq.data)
            /\ UNCHANGED outReq
       ELSE /\ outReq' = File(<<>>)
            /\ output_reqs' = <<>>
    /\ pc' = "m_diff"
    /\ UNCHANGED <<frame, outReq0, input_reqs, wanted_input_reqs, started, calls>>

\* the package names, the wanted lines, the early return, the sort
MergeDiff ==
    /\ pc = "m_diff"
    /\ wanted_input_reqs' = wanted(input_reqs, output_reqs)
    /\ IF Len(wanted_input_reqs') = 0
       THEN /\ pc' = "done"
            /\ UNCHANGED output_reqs
       ELSE /\ output_reqs' = sort(wanted_input_reqs' \o output_reqs)
            /\ pc' = "m_remove"
    /\ UNCHANGED <<frame, outReq, outReq0, input_reqs, started, calls>>

\* os.remove(output_req_file_path)
MergeRemove ==
    /\ pc = "m_remove"
    /\ outReq' = Absent
    /\ pc' = "m_open"
    /\ UNCHANGED <<frame, outReq0, mergeLocals, started, calls>>

\* open(output_req_file_path, 'w')
MergeOpen ==
    /\ pc = "m_open"
    /\ outReq' = File(<<>>)
    /\ pc' = "m_write"
    /\ UNCHANGED <<frame, outReq0, mergeLocals, started, calls>>

\* f.writelines(output_reqs) and the close of the file
MergeWrite ==
    /\ pc = "m_write"
    /\ outReq' = File(writelines(output_reqs))
    /\ pc' = "done"
    /\ UNCHANGED <<frame, outReq0, mergeLocals, started, calls>>

Merge ==
    \/ MergeBegin
    \/ MergeReadOutput
    \/ MergeDiff
    \/ MergeRemove
    \/ MergeOpen
    \/ MergeWrite

Next ==
    \/ GetSinglePublicDirectory
    \/ CheckSmallDir
    \/ CopyDirectoryOk
    \/ CopyDirectoryCpFails
    \/ CopyDirectoryCannotRun
    \/ Merge

Spec == Init /\ [][Next]_vars

----------------------------------------------------------------------------
(* add_input_repo_requirements called on its own, MaxCalls times in a row *)

InitMerge ==
    /\ pc = "m_begin"
    /\ children = << >>
    /\ max_gigabytes = DefaultMaxGigabytes /\ dir_bytes_size = 0
    /\ input_dir_path = NoDir
    /\ error = NoError
    /\ outDirs = {}
    /\ inReq \in ReqFiles
    /\ outReq \in ReqFiles
    /\ input_reqs = <<>> /\ output_reqs = <<>> /\ wanted_input_reqs = <<>>
    /\ started = <<>>
    /\ failedStages = {}
    /\ outDirs0 = outDirs
    /\ outReq0 = outReq
    /\ calls = 0
    /\ x = <<>> /\ key = <<>> /\ key2 = <<>>

\* the next call, with the same repos
CallAgain ==
    /\ pc = "done"
    /\ calls < MaxCalls
    /\ pc' = "m_begin"
    /\ outReq0' = outReq
    /\ input_reqs' = <<>> /\ output_reqs' = <<>> /\ wanted_input_reqs' = <<>>
    /\ UNCHANGED <<frame, outReq, started, calls>>

\* the process is killed in the middle of a call
Interrupt ==
    /\ pc \in MergePcs \ {"m_begin"}
    /\ pc' = "interrupted"
    /\ UNCHANGED <<frame, outReq, outReq0, mergeLocals, started, calls>>

NextMerge ==
    \/ Merge
    \/ CallAgain
    \/ Interrupt

SpecMerge == InitMerge /\ [][NextMerge]_vars

----------------------------------------------------------------------------
(* _get_pkg_name_fn applied to a name with a version suffix, then to its
   own result *)

NameChars == {"a", "b", " ", "\n"}
Operators == {"=", ">", "<"}
SuffixChars == Operators \cup {"1", "a", " "}

StringsUpTo(chars, n) == UNION {[1..m -> chars] : m \in 0..n}

Suffixes ==
    { <<op>> \o rest : op \in Operators,
                       rest \in StringsUpTo(SuffixChars, MaxSuffixLen - 1) }

InitKey ==
    /\ pc = "key"
    /\ \E n \in StringsUpTo(NameChars, MaxNameLen) :
         \E s \in Suffixes \cup {<<>>} : x = n \o s
    /\ key = <<>> /\ key2 = <<>>
    /\ children = << >>
    /\ max_gigabytes = DefaultMaxGigabytes /\ dir_bytes_size = 0
    /\ input_dir_path = NoDir
    /\ error = NoError
    /\ outDirs = {}
    /\ inReq = Absent
    /\ outReq = Absent
    /\ input_reqs = <<>> /\ output_reqs = <<>> /\ wanted_input_reqs = <<>>
    /\ started = <<>>
    /\ failedStages = {}
    /\ outDirs0 = outDirs
    /\ outReq0 = outReq
    /\ calls = 0

nonKeyVars == <<inputVars, input_dir_path, error, outDirs, outReq, mergeLocals,
                started, failedStages, outDirs0, outReq0, calls>>

GetPkgName ==
    /\ pc = "key"
    /\ key' = _get_pkg_name_fn(x)
    /\ pc' = "key_again"
    /\ UNCHANGED <<x, key2, nonKeyVars>>

GetPkgNameAgain ==
    /\ pc = "key_again"
    /\ key2' = _get_pkg_name_fn(key)
    /\ pc' = "key_done"
    /\ UNCHANGED <<x, key, nonKeyVars>>

NextKey ==
    \/ GetPkgName
    \/ GetPkgNameAgain

SpecKey == InitKey /\ [][NextKey]_vars

----------------------------------------------------------------------------
(* Properties *)

IsSorted(lines) ==
    \A i \in 1..(Len(lines) - 1) : StrLessEq(lines[i], lines[i + 1])

Count(l, lines) == Cardinality({i \in DOMAIN lines : lines[i] = l})

SameLines(a, b) ==
    \A l \in Range(a) \cup Range(b) : Count(l, a) = Count(l, b)

\* the children the locator is to choose from, by the naming rules
Candidates ==
    {n \in DOMAIN children :
        /\ children[n] = "dir"
        /\ n[1] # "."
        /\ n[1] # "_"
        /\ n # tests}

\* C1: once get_single_public_directory has run, it has returned the only
\* child directory that is not hidden, not private and not named tests when
\* there is exactly one, and otherwise the run has failed with a ValueError
\* that lists the names of the candidates.
C1_SinglePublicDirectory ==
    "locate" \in Range(started) =>
        IF Cardinality(Candidates) = 1
        THEN /\ input_dir_path \in Candidates
             /\ "locate" \notin failedStages
        ELSE /\ pc = "failed"
             /\ "locate" \in failedStages
             /\ error.kind = "ValueError"
             /\ error.names = Candidates

C1_Witness ==
    /\ pc = "check"
    /\ DOMAIN children = {tests, <<".", "g">>, <<"s", "r", "c">>}
    /\ \A n \in DOMAIN children : children[n] = "dir"
    /\ input_dir_path = <<"s", "r", "c">>

\* C2: when locating the public directory or the size check fails, the run
\* has ended, neither the copy nor the requirements merge has started, and
\* the output repo's directories and requirements.txt are as they were.
C2_FailFast ==
    failedStages \cap {"locate", "check"} # {} =>
        /\ pc = "failed"
        /\ "copy" \notin Range(started)
        /\ "merge" \notin Range(started)
        /\ outDirs = outDirs0
        /\ outReq = outReq0

C2_Witness ==
    /\ pc = "failed"
    /\ "check" \in failedStages
    /\ outDirs # {}
    /\ outReq.exists
    /\ inReq.exists

\* C3: a stage that failed is the last stage that started: no stage runs
\* after a failed locate, size check, copy or merge.
C3_EveryFailureFatal ==
    \A i \in DOMAIN started :
        started[i] \in failedStages => i = Len(started)

\* C4: when a call of add_input_repo_requirements has rewritten the output
\* file, the package names of the written file are those of the input file
\* and of the former output file together, no package name is on two lines,
\* and the lines are in lexicographic order.
C4_MergeUnionNoDuplicatesSorted ==
    (pc = "done" /\ wanted_input_reqs # <<>>) =>
        LET written == readlines(outReq.data)
        IN  /\ PackageNames(written) =
                 PackageNames(readlines(inReq.data))
                 \cup PackageNames(readlines(outReq0.data))
            /\ \A i, j \in DOMAIN written :
                 i # j => _get_pkg_name_fn(written[i]) # _get_pkg_name_fn(written[j])
            /\ IsSorted(written)

\* the call had nothing to add: no input file, or every input package name
\* among the output's
NothingToAdd ==
    \/ ~inReq.exists
    \/ PackageNames(readlines(inReq.data))
         \subseteq PackageNames(readlines(outReq0.data))

\* C5 as stated: a call with nothing to add leaves the output file with the
\* same existence and the same contents.
C5_NoOpSameExistence ==
    (pc = "done" /\ calls >= 1 /\ NothingToAdd) => outReq = outReq0

\* C5: a call with nothing to add leaves the contents of the output file as
\* they were; the file is unchanged altogether when it existed or when the
\* input repo has no requirements file, and it is created empty when it did
\* not exist and the input repo has a requirements file.
C5_NoOpSameContents ==
    (pc = "done" /\ calls >= 1 /\ NothingToAdd) =>
        /\ outReq.data = outReq0.data
        /\ (outReq0.exists \/ ~inReq.exists) => outReq = outReq0
        /\ (~outReq0.exists /\ inReq.exists) => outReq = File(<<>>)

C5_Witness ==
    /\ pc = "done"
    /\ calls = 1
    /\ inReq = File(<<"a", "=", "1", "\n", "a">>)
    /\ outReq0 = File(<<"b", "<", "2", "\n", "a", "\n">>)
    /\ outReq = outReq0

\* what a complete call makes of the output file
MergedFile(in, out) ==
    IF ~in.exists THEN out
    ELSE LET w == wanted(readlines(in.data), readlines(out.data))
         IN  IF w = <<>>
             THEN File(out.data)
             ELSE File(writelines(sort(w \o readlines(out.data))))

\* C6: at every point of a call the output file is either as it was when
\* the call began or holds the complete merged contents.
C6_AtomicRewrite ==
    outReq \in {outReq0, MergedFile(inReq, outReq0)}

\* C7: after the first call with an input file and no output file, the
\* output file exists, its lines are the input file's lines, each as many
\* times, and they are in lexicographic order.
C7_CreatedFromInput ==
    (pc = "done" /\ calls = 1 /\ inReq.exists /\ ~outReq0.exists) =>
        /\ outReq.exists
        /\ SameLines(readlines(outReq.data), readlines(inReq.data))
        /\ IsSorted(readlines(outReq.data))

\* C8: once check_small_dir has run, it has passed when the measured size is
\* at most the ceiling, and otherwise the run has failed with an error that
\* carries the measured size.
C8_SizeGuard ==
    "check" \in Range(started) =>
        IF dir_bytes_size * max_gigabytes[2] <= max_gigabytes[1] * BytesPerGigabyte
        THEN "check" \notin failedStages
        ELSE /\ pc = "failed"
             /\ "check" \in failedStages
             /\ error.kind = "Exception"
             /\ error.size = <<dir_bytes_size, BytesPerGigabyte>>

C8_Witness ==
    /\ pc = "copy"
    /\ dir_bytes_size * max_gigabytes[2] = max_gigabytes[1] * BytesPerGigabyte

\* the part of a line before its first version operator
NameOf(line) ==
    LET ops == {i \in DOMAIN line : line[i] \in Operators}
    IN  IF ops = {} THEN line
        ELSE SubSeq(line, 1, (CHOOSE i \in ops : \A j \in ops : i <= j) - 1)

\* C9: the key of a name followed by a version suffix is the name with the
\* whitespace at its ends removed, and the key of a key is that key.
C9_KeyIdempotentOperatorAgnostic ==
    /\ pc \in {"key_again", "key_done"} =>
         /\ key = strip(NameOf(x))
         /\ \A i \in DOMAIN key : key[i] \notin Operators
    /\ pc = "key_done" => key2 = key

C9_Witness ==
    /\ pc = "key_done"
    /\ x = <<" ", "a", "<", "1">>
    /\ key = <<"a">>
    /\ key2 = <<"a">>

\* C10: a second call right after the first finds nothing to add and leaves
\* the output file as the first call left it.
C10_MergeIdempotent ==
    (pc = "done" /\ calls >= 2) =>
        /\ wanted_input_reqs = <<>>
        /\ outReq = outReq0

====
